---- MODULE Spec2Model ----
(***************************************************************************)
(* Model of src/app/data.py: the loader, the time-third partitioner, the   *)
(* three window analytics (quarterly_returns, ma180, vol180) and the three *)
(* request handlers that chain them.                                       *)
(*                                                                         *)
(* Dates are whole days counted from 1 January of a non-leap year (the     *)
(* file holds daily rows, so every timestamp is a midnight).  Prices are   *)
(* positive integers; every derived value is an exact rational <<n, d>>    *)
(* in lowest terms with d > 0, and NaN is <<0, 0>>.  Floating-point        *)
(* rounding of pandas is not modelled.                                     *)
(***************************************************************************)
EXTENDS Integers, Sequences, FiniteSets, TLC

\* ---------------------------------------------------------------- bounds
MaxRows == 5
MaxLen == 4

\* Candidate dates and close prices of the rows of the data file.
FileDates == {0, 1, 4, 5, 6, 8, 12, 300}
\* Candidate dates of a partition handed to one analytic called on its own.
PartDates == {0, 1, 89, 90, 180, 181, 200, 365}
FileCloses == {10, 20}
\* Candidate close prices of the rows of such a partition.
Closes == {10, 20, 30}

\* ------------------------------------------------------ program constants
WindowDays == 180
TradingDays == 252

\* ------------------------------------------------------------- rationals
RECURSIVE Gcd(_, _)
Gcd(a, b) == IF b = 0 THEN a ELSE Gcd(b, a % b)

Abs(x) == IF x < 0 THEN -x ELSE x

NaN == <<0, 0>>
IsNaN(v) == v[2] = 0

Rat(n, d) ==
    LET g == Gcd(Abs(n), Abs(d))
        s == IF d < 0 THEN -1 ELSE 1
    IN  IF d = 0 THEN NaN ELSE <<(s * n) \div g, (s * d) \div g>>

RAdd(x, y) == Rat(x[1] * y[2] + y[1] * x[2], x[2] * y[2])
RSub(x, y) == Rat(x[1] * y[2] - y[1] * x[2], x[2] * y[2])
RMul(x, y) == Rat(x[1] * y[1], x[2] * y[2])
RDiv(x, y) == Rat(x[1] * y[2], x[2] * y[1])

RECURSIVE RSum(_)
RSum(s) == IF s = <<>> THEN <<0, 1>> ELSE RAdd(Head(s), RSum(Tail(s)))

\* ------------------------------------------------------------ data values
Row(d, c) == [Date |-> d, Close |-> c]
Point(d, v) == [Date |-> d, value |-> v]

\* A pandas DataFrame of price rows, or Python's None.
DataFrame(rows) == [kind |-> "DataFrame", rows |-> rows]
None == [kind |-> "None", rows |-> <<>>]

\* A pandas Series of (date, value) points, or an exception leaving the call.
Series(points) == [kind |-> "Series", points |-> points]
AttributeError == [kind |-> "AttributeError", points |-> <<>>]

\* df.empty
IsEmpty(df) == Len(df.rows) = 0

DateSet(rows) == {rows[i].Date : i \in 1..Len(rows)}

Reverse(s) == [i \in 1..Len(s) |-> s[Len(s) + 1 - i]]

\* sort_values("Date") / sort_index(): ascending by date (dates are distinct).
RECURSIVE SortByDate(_)
SortByDate(rows) ==
    IF rows = <<>> THEN <<>>
    ELSE LET m == CHOOSE i \in 1..Len(rows) :
                      \A j \in 1..Len(rows) : rows[i].Date <= rows[j].Date
         IN  <<rows[m]>> \o SortByDate(SelectSeq(rows, LAMBDA r : r.Date # rows[m].Date))

\* ----------------------------------------------------------------- loader
\* Variant: the rows in file order, the sort left out.
UnsortedLoad(file) == DataFrame(file.rows)

\* load_dataframe: the rows of the file, sorted by date, re-indexed.
load_dataframe(file) == DataFrame(SortByDate(file.rows))

\* ------------------------------------------------------------ partitioner
MinDate(rows) == CHOOSE d \in DateSet(rows) : \A e \in DateSet(rows) : d <= e
MaxDate(rows) == CHOOSE d \in DateSet(rows) : \A e \in DateSet(rows) : e <= d

\* Variant: date < cut1.
StrictCut1(start, total, d) == 3 * (d - start) < total

\* date <= start + total / 3 (cut1), in exact arithmetic: the dates are whole
\* days and a third of a whole number of days is a whole number of nanoseconds.
BeforeOrAtCut1(start, total, d) == 3 * (d - start) <= total

\* date > start + total / 3
AfterCut1(start, total, d) == 3 * (d - start) > total

\* date <= start + 2 * total / 3 (cut2)
BeforeOrAtCut2(start, total, d) == 3 * (d - start) <= 2 * total

\* date > start + 2 * total / 3
AfterCut2(start, total, d) == 3 * (d - start) > 2 * total

\* Variant: thirds of the row count instead of thirds of the time span.
RowCountSplit(df) ==
    IF df.kind = "None" \/ IsEmpty(df) THEN <<None, None, None>>
    ELSE LET n == Len(df.rows)
         IN  <<DataFrame(SubSeq(df.rows, 1, (n + 2) \div 3)),
               DataFrame(SubSeq(df.rows, (n + 2) \div 3 + 1, (2 * n + 2) \div 3)),
               DataFrame(SubSeq(df.rows, (2 * n + 2) \div 3 + 1, n))>>

split_into_three(df) ==
    IF df.kind = "None" \/ IsEmpty(df) THEN <<None, None, None>>
    ELSE LET rows == df.rows
             start == MinDate(rows)
             total == MaxDate(rows) - start
         IN  <<DataFrame(SelectSeq(rows, LAMBDA r : BeforeOrAtCut1(start, total, r.Date))),
               DataFrame(SelectSeq(rows, LAMBDA r : AfterCut1(start, total, r.Date)
                                                    /\ BeforeOrAtCut2(start, total, r.Date))),
               DataFrame(SelectSeq(rows, LAMBDA r : AfterCut2(start, total, r.Date)))>>

\* ------------------------------------------------------- series utilities
\* Series.dropna(): the points whose value is not NaN.
dropna(points) == SelectSeq(points, LAMBDA pt : ~IsNaN(pt.value))

\* Series.fillna(method='pad'): a NaN takes the latest earlier non-NaN value.
RECURSIVE PadValue(_, _)
PadValue(points, i) ==
    IF i = 0 THEN NaN
    ELSE IF ~IsNaN(points[i].value) THEN points[i].value
    ELSE PadValue(points, i - 1)

ffill(points) == [i \in 1..Len(points) |-> Point(points[i].Date, PadValue(points, i))]

\* Series.pct_change() with its defaults (periods=1, fill_method='pad'):
\* the padded series divided by itself shifted by one, minus 1.
pct_change(points) ==
    LET data == ffill(points)
    IN  [i \in 1..Len(points) |->
            Point(points[i].Date,
                  IF i = 1 THEN NaN
                  ELSE RSub(RDiv(data[i].value, data[i - 1].value), <<1, 1>>))]

\* df.set_index('Date')['Close']
CloseSeries(rows) == [i \in 1..Len(rows) |-> Point(rows[i].Date, <<rows[i].Close, 1>>)]

\* --------------------------------------------------------- rolling('180D')
\* Variant: the window closed at both ends, [date_i - 180 days, date_i].
ClosedBothWindow(points, i) ==
    {j \in 1..i : points[j].Date >= points[i].Date - WindowDays}

\* The window of point i under rolling('180D'), closed='right' (the default
\* of an offset window): the points j <= i dated in (date_i - 180 days, date_i].
RollingWindow(points, i) ==
    {j \in 1..i : points[j].Date > points[i].Date - WindowDays}

\* The non-NaN observations of the window of point i, oldest first.
WindowValues(points, i) ==
    LET obs == SelectSeq([j \in 1..i |-> [idx |-> j, value |-> points[j].value]],
                         LAMBDA o : o.idx \in RollingWindow(points, i) /\ ~IsNaN(o.value))
    IN  [k \in 1..Len(obs) |-> obs[k].value]

\* rolling(...).mean(): NaN below min_periods observations.
RollingMean(points, minp) ==
    [i \in 1..Len(points) |->
        LET w == WindowValues(points, i)
        IN  Point(points[i].Date,
                  IF Len(w) < minp THEN NaN ELSE RDiv(RSum(w), <<Len(w), 1>>))]

\* Sample variance with ddof delta degrees of freedom.
Variance(w, ddof) ==
    LET mean == RDiv(RSum(w), <<Len(w), 1>>)
        sq == [k \in 1..Len(w) |-> RMul(RSub(w[k], mean), RSub(w[k], mean))]
    IN  RDiv(RSum(sq), <<Len(w) - ddof, 1>>)

\* Variant: ddof=0, so that a single observation has deviation 0.
PopulationStd(points, minp) ==
    [i \in 1..Len(points) |->
        LET w == WindowValues(points, i)
        IN  Point(points[i].Date, IF Len(w) < minp THEN NaN ELSE Variance(w, 0))]

\* rolling(...).std() (ddof=1): NaN below min_periods observations and when
\* the window holds no more than ddof of them.  The value kept is the
\* variance, the square of the standard deviation pandas returns.
RollingStd(points, minp) ==
    [i \in 1..Len(points) |->
        LET w == WindowValues(points, i)
        IN  Point(points[i].Date,
                  IF Len(w) < minp \/ Len(w) <= 1 THEN NaN ELSE Variance(w, 1))]

\* --------------------------------------------------------- resample('Q')
\* Calendar quarter of a day (quarters end 31 Mar, 30 Jun, 30 Sep, 31 Dec).
QuarterOf(d) ==
    4 * (d \div 365) + (IF d % 365 < 90 THEN 0
                        ELSE IF d % 365 < 181 THEN 1
                        ELSE IF d % 365 < 273 THEN 2 ELSE 3)

QuarterEnd(q) ==
    365 * (q \div 4) + (CASE q % 4 = 0 -> 89 [] q % 4 = 1 -> 180
                          [] q % 4 = 2 -> 272 [] OTHER -> 364)

\* .last() of one quarter bin: the close of its last row, NaN when it has none.
LastInQuarter(rows, q) ==
    LET idx == {i \in 1..Len(rows) : QuarterOf(rows[i].Date) = q}
    IN  IF idx = {} THEN NaN
        ELSE <<rows[CHOOSE i \in idx : \A j \in idx : j <= i].Close, 1>>

\* resample('Q')['Close'].last(): one bin per calendar quarter from the
\* quarter of the first date to the quarter of the last, empty ones included.
ResampleLast(rows) ==
    LET lo == QuarterOf(MinDate(rows))
        hi == QuarterOf(MaxDate(rows))
    IN  [k \in 1..(hi - lo + 1) |->
            Point(QuarterEnd(lo + k - 1), LastInQuarter(rows, lo + k - 1))]

\* -------------------------------------------------------------- analytics
\* Variant: without the `df is None` guard, set_index raises on None.
UnguardedQuarterly(df) ==
    IF df.kind = "None" THEN AttributeError
    ELSE IF IsEmpty(df) THEN Series(<<>>)
    ELSE Series(dropna(pct_change(ResampleLast(df.rows))))

quarterly_returns(df) ==
    IF df.kind = "None" \/ IsEmpty(df) THEN Series(<<>>)
    ELSE Series(dropna(pct_change(ResampleLast(df.rows))))

\* Variant: min_periods=2.
MinPeriodsTwoMa(df) ==
    IF df.kind = "None" \/ IsEmpty(df) THEN Series(<<>>)
    ELSE Series(dropna(RollingMean(CloseSeries(SortByDate(df.rows)), 2)))

ma180(df) ==
    IF df.kind = "None" \/ IsEmpty(df) THEN Series(<<>>)
    ELSE Series(dropna(RollingMean(CloseSeries(SortByDate(df.rows)), 1)))

\* vol * (252 ** 0.5), on the squared value.
Annualized(points) ==
    [i \in 1..Len(points) |->
        Point(points[i].Date, RMul(points[i].value, <<TradingDays, 1>>))]

vol180(df, annualize) ==
    IF df.kind = "None" \/ IsEmpty(df) THEN Series(<<>>)
    ELSE LET s == CloseSeries(SortByDate(df.rows))
             daily_ret == dropna(pct_change(s))
             vol == RollingStd(daily_ret, 1)
         IN  Series(dropna(IF annualize THEN Annualized(vol) ELSE vol))

\* --------------------------------------------------------------- handlers
Apply(name, df) ==
    CASE name = "dividends" -> quarterly_returns(df)
      [] name = "ma180"     -> ma180(df)
      [] OTHER              -> vol180(df, TRUE)

\* The points of a series dated at one of the rows of a frame (used by the
\* variant below).
SliceTo(series, df) ==
    IF series.kind # "Series" THEN series
    ELSE Series(SelectSeq(series.points, LAMBDA pt : pt.Date \in DateSet(df.rows)))

\* Variant: the analytic run once over the whole frame, then cut per partition.
WholeSeriesAnalytics(name, df) ==
    LET parts3 == split_into_three(df)
        whole == Apply(name, df)
    IN  [k \in 1..3 |-> SliceTo(whole, parts3[k])]

\* p1, p2, p3 = split_into_three(df); then the analytic of the route on
\* each of the three partitions in turn.
PartAnalytics(name, df) ==
    LET parts3 == split_into_three(df)
    IN  [k \in 1..3 |-> Apply(name, parts3[k])]

VARIABLES
    file,     \* the data file at FILE_PATH: whether it exists, and its rows
    route,    \* the route of the last request served
    status,   \* the HTTP status of the last response
    parts,    \* the partitions the last request computed
    out,      \* the three derived series of the last response
    p,        \* the partition handed to one analytic called on its own
    fn,       \* the analytic last called on p
    res       \* what that call returned

vars == <<file, route, status, parts, out, p, fn, res>>

\* A date-indexed set of rows as a sequence in ascending date order.
RECURSIVE Ascending(_, _)
Ascending(S, c) ==
    IF S = {} THEN <<>>
    ELSE LET d == CHOOSE x \in S : \A y \in S : x <= y
         IN  <<Row(d, c[d])>> \o Ascending(S \ {d}, c)

\* Every series of at most n rows over the dates D and closes C, one row per date.
SortedRows(D, C, n) ==
    UNION {{Ascending(S, c) : c \in [S -> C]} :
             S \in {T \in SUBSET D : Cardinality(T) <= n}}

\* The file lists its rows oldest first or newest first.
Files ==
    {[exists |-> FALSE, rows |-> <<>>]}
      \cup {[exists |-> TRUE, rows |-> r] : r \in SortedRows(FileDates, FileCloses, MaxRows)}
      \cup {[exists |-> TRUE, rows |-> Reverse(r)] : r \in SortedRows(FileDates, FileCloses, MaxRows)}

Partitions == {None} \cup {DataFrame(r) : r \in SortedRows(PartDates, Closes, MaxLen)}

NoRequest ==
    /\ route = "none"
    /\ status = 0
    /\ parts = <<>>
    /\ out = <<>>

NoCall ==
    /\ fn = "none"
    /\ res = Series(<<>>)

Init ==
    /\ file \in Files
    /\ NoRequest
    /\ p = None
    /\ NoCall

\* The body shared by the three plotting routes: load the file (abort 404
\* when it is missing), split, run the analytic of the route on the three
\* partitions; an exception leaving an analytic becomes a 500.
Response(name) ==
    IF ~file.exists
    THEN [status |-> 404, parts |-> <<>>, out |-> <<>>]
    ELSE LET df == load_dataframe(file)
             o == PartAnalytics(name, df)
         IN  IF \E k \in 1..3 : o[k].kind # "Series"
             THEN [status |-> 500, parts |-> split_into_three(df), out |-> <<>>]
             ELSE [status |-> 200, parts |-> split_into_three(df), out |-> o]

dividends_plot ==
    LET r == Response("dividends")
    IN  /\ route' = "dividends"
        /\ status' = r.status
        /\ parts' = r.parts
        /\ out' = r.out
        /\ UNCHANGED <<file, p, fn, res>>

vol180_plot ==
    LET r == Response("vol180")
    IN  /\ route' = "vol180"
        /\ status' = r.status
        /\ parts' = r.parts
        /\ out' = r.out
        /\ UNCHANGED <<file, p, fn, res>>

ma180_plot ==
    LET r == Response("ma180")
    IN  /\ route' = "ma180"
        /\ status' = r.status
        /\ parts' = r.parts
        /\ out' = r.out
        /\ UNCHANGED <<file, p, fn, res>>

Next == dividends_plot \/ vol180_plot \/ ma180_plot

Spec == Init /\ [][Next]_vars

\* ------------------------------------------ the analytics called directly
InitFn ==
    /\ p \in Partitions
    /\ NoCall
    /\ file = [exists |-> FALSE, rows |-> <<>>]
    /\ NoRequest

CallQuarterlyReturns ==
    /\ fn' = "quarterly_returns"
    /\ res' = quarterly_returns(p)
    /\ UNCHANGED <<file, route, status, parts, out, p>>

CallMa180 ==
    /\ fn' = "ma180"
    /\ res' = ma180(p)
    /\ UNCHANGED <<file, route, status, parts, out, p>>

CallVol180 ==
    \E annualize \in BOOLEAN :
        /\ fn' = IF annualize THEN "vol180" ELSE "vol180_raw"
        /\ res' = vol180(p, annualize)
        /\ UNCHANGED <<file, route, status, parts, out, p>>

NextFn == CallQuarterlyReturns \/ CallMa180 \/ CallVol180

SpecFn == InitFn /\ [][NextFn]_vars

\* ================================================================ claims
Served == status = 200
Rows(k) == parts[k].rows
NonEmpty(k) == parts[k].kind = "DataFrame" /\ Rows(k) # <<>>
DatesOf(points) == {points[i].Date : i \in 1..Len(points)}
FileSpan == MaxDate(file.rows) - MinDate(file.rows)

\* How many rows of the partitions equal the row r.
Copies(r) ==
    Cardinality({kj \in (1..3) \X (1..Len(file.rows)) :
                    /\ kj[2] <= Len(Rows(kj[1]))
                    /\ Rows(kj[1])[kj[2]] = r})

\* C1: for a nonempty series with distinct dates the three partitions'
\* lengths sum to the input length and every input record is in exactly one
\* of them.
C1_PartitionComplete ==
    (Served /\ file.rows # <<>>) =>
        /\ Len(Rows(1)) + Len(Rows(2)) + Len(Rows(3)) = Len(file.rows)
        /\ \A i \in 1..Len(file.rows) : Copies(file.rows[i]) = 1

C1_Witness ==
    /\ Served
    /\ Len(file.rows) >= 4
    /\ \A k \in 1..3 : NonEmpty(k)
    /\ \E i \in 1..Len(file.rows) : 3 * (file.rows[i].Date - MinDate(file.rows)) = FileSpan

\* C2: split_into_three of an empty series returns three empty price
\* sequences (empty DataFrames) without an error.
C2_EmptyGivesEmptyFrames ==
    (Served /\ file.rows = <<>>) =>
        parts = <<DataFrame(<<>>), DataFrame(<<>>), DataFrame(<<>>)>>

\* C5: Part1 holds exactly the records dated <= start + span/3, Part2 those
\* in (start + span/3, start + 2*span/3], Part3 those after, the division
\* being exact; with span = 0 every record is in Part1.
InPart(k, r) == \E j \in 1..Len(Rows(k)) : Rows(k)[j] = r

C5_CutPointRule ==
    (Served /\ file.rows # <<>>) =>
        LET start == MinDate(file.rows)
            span == MaxDate(file.rows) - start
        IN  /\ \A i \in 1..Len(file.rows) :
                  LET r == file.rows[i]
                      t == 3 * (r.Date - start)
                  IN  /\ InPart(1, r) <=> t <= span
                      /\ InPart(2, r) <=> (span < t /\ t <= 2 * span)
                      /\ InPart(3, r) <=> t > 2 * span
            /\ span = 0 => /\ Len(Rows(1)) = Len(file.rows)
                           /\ Rows(2) = <<>>
                           /\ Rows(3) = <<>>

\* A trading gap near the start: a count-based split would cut elsewhere.
C5_Witness ==
    /\ Served
    /\ Len(file.rows) = 5
    /\ FileSpan % 3 # 0
    /\ Len(Rows(1)) = 1
    /\ Len(Rows(2)) = 3
    /\ Len(Rows(3)) = 1

\* C6: each partition's dates are non-decreasing, and the latest date of a
\* partition is at most the earliest date of the next one.
NonDecreasing(rows) == \A i \in 1..Len(rows) - 1 : rows[i].Date <= rows[i + 1].Date

C6_PartitionOrdering ==
    (Served /\ file.rows # <<>>) =>
        /\ \A k \in 1..3 : NonDecreasing(Rows(k))
        /\ \A k \in 1..2 :
              (NonEmpty(k) /\ NonEmpty(k + 1)) =>
                  MaxDate(Rows(k)) <= MinDate(Rows(k + 1))

C6_Witness ==
    /\ Served
    /\ Len(file.rows) >= 4
    /\ ~NonDecreasing(file.rows)
    /\ \A k \in 1..3 : NonEmpty(k)
    /\ Len(Rows(2)) >= 2

\* C9: every request that finds the file runs its analytic on all three
\* partitions without raising; an empty or absent partition gives an empty
\* series and the other partitions still get their results.
C9_PartitionsIndependent ==
    (route # "none" /\ file.exists) =>
        /\ status = 200
        /\ \A k \in 1..3 :
              /\ out[k].kind = "Series"
              /\ ~NonEmpty(k) => out[k].points = <<>>
              /\ out[k] = Apply(route, parts[k])
              /\ route = "ma180" => Len(out[k].points) = Len(Rows(k))

C9_Witness ==
    /\ Served
    /\ route = "ma180"
    /\ parts[2] = DataFrame(<<>>)
    /\ out[2].points = <<>>
    /\ Len(out[1].points) >= 2
    /\ Len(out[3].points) >= 1

\* C10: a rolling window never reaches into the preceding partition: the
\* ma180 value at the first record of a partition is that record's close,
\* and vol180 has no point at the first record of a partition nor at the
\* second (whose window holds the partition's first return alone).
C10_WindowsStayInPartition ==
    /\ (Served /\ route = "ma180") =>
          \A k \in 1..3 :
              NonEmpty(k) =>
                  /\ out[k].points # <<>>
                  /\ out[k].points[1] = Point(Rows(k)[1].Date, <<Rows(k)[1].Close, 1>>)
    /\ (Served /\ route = "vol180") =>
          \A k \in 1..3 : \A j \in 1..Len(Rows(k)) :
              j <= 2 => Rows(k)[j].Date \notin DatesOf(out[k].points)

C10_Witness ==
    /\ Served
    /\ route = "ma180"
    /\ NonEmpty(1)
    /\ Len(Rows(2)) >= 2
    /\ Rows(2)[1].Date - Rows(1)[Len(Rows(1))].Date < WindowDays
    /\ Rows(2)[1].Close # Rows(1)[Len(Rows(1))].Close
    /\ out[2].points[1].value = <<Rows(2)[1].Close, 1>>

\* ------------------------------------------- claims about one analytic call
RECURSIVE SumClose(_, _)
SumClose(rows, S) ==
    IF S = {} THEN 0
    ELSE LET j == CHOOSE x \in S : TRUE
         IN  rows[j].Close + SumClose(rows, S \ {j})

\* The series has a point at date d whose value is the mean of the closes
\* of the rows S.
MeanAt(d, rows, S) ==
    \E i \in 1..Len(res.points) :
        /\ res.points[i].Date = d
        /\ res.points[i].value[2] > 0
        /\ res.points[i].value[1] * Cardinality(S)
             = res.points[i].value[2] * SumClose(rows, S)

\* C3 as stated: the mean at d runs over the records dated in
\* [d - 180 days, d], both ends included.
C3_ClosedWindowMean ==
    (fn = "ma180" /\ p.kind = "DataFrame") =>
        \A i \in 1..Len(p.rows) :
            LET d == p.rows[i].Date
            IN  MeanAt(d, p.rows, {j \in 1..Len(p.rows) :
                                     /\ d - WindowDays <= p.rows[j].Date
                                     /\ p.rows[j].Date <= d})

\* C3 amended: the mean at d runs over the records dated in
\* (d - 180 days, d]; a record dated exactly 180 days before d is left out.
C3_HalfOpenWindowMean ==
    (fn = "ma180" /\ p.kind = "DataFrame") =>
        \A i \in 1..Len(p.rows) :
            LET d == p.rows[i].Date
            IN  MeanAt(d, p.rows, {j \in 1..Len(p.rows) :
                                     /\ d - WindowDays < p.rows[j].Date
                                     /\ p.rows[j].Date <= d})

C3_Witness ==
    /\ fn = "ma180"
    /\ Len(p.rows) >= 3
    /\ \E i, j, k \in 1..Len(p.rows) :
          /\ p.rows[j].Date = p.rows[i].Date - WindowDays
          /\ p.rows[k].Date = p.rows[i].Date - WindowDays + 1
          /\ p.rows[j].Close # p.rows[i].Close
          /\ res.points[i].value = <<(p.rows[i].Close + p.rows[k].Close) \div 2, 1>>

\* C4: quarterly_returns has one point per nonempty quarter bucket but the
\* first and none for a quarter without records.
QuartersOf(rows) == {QuarterOf(rows[i].Date) : i \in 1..Len(rows)}

C4_OnePointPerNonemptyQuarter ==
    (fn = "quarterly_returns" /\ p.kind = "DataFrame" /\ p.rows # <<>>) =>
        /\ Len(res.points) = Cardinality(QuartersOf(p.rows)) - 1
        /\ \A i \in 1..Len(res.points) :
              QuarterOf(res.points[i].Date) \in QuartersOf(p.rows)

\* C7: ma180 of a nonempty partition has one value per record, in
\* increasing date order.
C7_OneValuePerRecord ==
    (fn = "ma180" /\ p.kind = "DataFrame" /\ p.rows # <<>>) =>
        /\ res.kind = "Series"
        /\ Len(res.points) = Len(p.rows)
        /\ \A i \in 1..Len(res.points) :
              /\ res.points[i].Date = p.rows[i].Date
              /\ ~IsNaN(res.points[i].value)
        /\ \A i \in 1..Len(res.points) - 1 :
              res.points[i].Date < res.points[i + 1].Date

C7_Witness ==
    /\ fn = "ma180"
    /\ Len(p.rows) = MaxLen
    /\ Len(res.points) = MaxLen
    /\ \E i \in 2..Len(p.rows) : p.rows[i].Date - p.rows[i - 1].Date > WindowDays

\* C8: vol180 has no point at a date whose 180-day window holds fewer than
\* two returns (such a date is absent, not NaN and not zero), so never at
\* the first or the second record, and nothing for at most two records.
ReturnsInWindow(d) ==
    {j \in 2..Len(p.rows) : d - WindowDays < p.rows[j].Date /\ p.rows[j].Date <= d}

C8_NoPointBelowTwoReturns ==
    (fn \in {"vol180", "vol180_raw"} /\ p.kind = "DataFrame") =>
        /\ \A i \in 1..Len(res.points) :
              /\ Cardinality(ReturnsInWindow(res.points[i].Date)) >= 2
              /\ ~IsNaN(res.points[i].value)
        /\ \A j \in 1..Len(p.rows) :
              j <= 2 => p.rows[j].Date \notin DatesOf(res.points)
        /\ Len(p.rows) <= 2 => res.points = <<>>

C8_Witness ==
    /\ fn = "vol180"
    /\ Len(p.rows) = 4
    /\ Len(res.points) = 1
    /\ res.points[1].Date = p.rows[3].Date
    /\ p.rows[4].Date - p.rows[3].Date >= WindowDays

====
